---- MODULE Spec2Model ----
(***************************************************************************)
(* A model of calc (src/calc.py): the pyparsing grammar built by          *)
(* calcLang(), the recursive reducer Calc.evaluate / Calc.evaluate_expr   *)
(* and the driver (loop() and the __main__ block).                        *)
(*                                                                         *)
(* Python floats are modelled as exact rationals num/den in lowest terms   *)
(* (den > 0) with numerator and denominator up to MaxExact.  A float that  *)
(* has no value in this domain (the result of a non-integral exponent, a   *)
(* value past MaxExact) is the value Inexact, den = 0; arithmetic on it    *)
(* gives Inexact.  The OverflowError of a float power past the float range *)
(* lies beyond the inputs modelled here.                                   *)
(* Python list indices are kept 0-based as in the source; the TLA+         *)
(* sequence element at position p + 1 is the Python element [p].           *)
(***************************************************************************)
EXTENDS Integers, Sequences, FiniteSets, TLC

VARIABLES mode, line, pc, stack, op_index, result, error, output,
          init_stack, reductions

vars == <<mode, line, pc, stack, op_index, result, error, output,
          init_stack, reductions>>

(***************************************************************************)
(* Bounds of the model.                                                    *)
(***************************************************************************)
\* most operators in a token sequence handed straight to Calc.evaluate
MaxOps == 3
\* most characters in one input line / joined argument string
MaxLineLen == 4
\* largest numerator and denominator of a float that is modelled exactly
MaxExact == 16384

\* the numeric literals of the token sequences handed straight to evaluate
Literals == {-2, 0, 2}
\* the characters input lines are made of
Alphabet == {"0", "2", "+", "-", "*", "/", "^", ".", " ", "\t"}

(***************************************************************************)
(* Tokens.  A parsed number is a float, an operator is a one-character     *)
(* string; both are records of one shape so that they can be compared.     *)
(***************************************************************************)
Number(n, d) == [type |-> "Number", op |-> "", num |-> n, den |-> d]
Operator(s) == [type |-> "Operator", op |-> s, num |-> 0, den |-> 1]
NoResult == [type |-> "None", op |-> "", num |-> 0, den |-> 1]
Inexact == Number(0, 0)

OpSymbols == {"^", "*", "/", "+", "-"}

IsNumber(t) == t.type = "Number"
IsOperator(t) == t.type = "Operator"

(***************************************************************************)
(* Float arithmetic on exact rationals.                                    *)
(***************************************************************************)
Abs(x) == IF x < 0 THEN -x ELSE x

RECURSIVE GCD(_, _)
GCD(a, b) == IF b = 0 THEN a ELSE GCD(b, a % b)

\* the rational n/d (d # 0) in lowest terms with a positive denominator,
\* Inexact when it is outside the exactly modelled range
Norm(n, d) ==
    LET g == GCD(Abs(n), Abs(d))
        s == IF d < 0 THEN -1 ELSE 1
        nn == (s * n) \div g
        dd == (s * d) \div g
    IN  IF Abs(nn) > MaxExact \/ dd > MaxExact THEN Inexact
        ELSE Number(nn, dd)

\* acc * b^e, left as it is once it has passed MaxExact
RECURSIVE PowAcc(_, _, _)
PowAcc(b, e, acc) ==
    IF e = 0 \/ Abs(acc) > MaxExact THEN acc ELSE PowAcc(b, e - 1, acc * b)

\* b^e for e >= 0, some value past MaxExact when b^e is past MaxExact
IntPow(b, e) ==
    IF e = 0 THEN 1
    ELSE IF b = 0 THEN 0
    ELSE IF b = 1 THEN 1
    ELSE IF b = -1 THEN (IF e % 2 = 0 THEN 1 ELSE -1)
    ELSE PowAcc(b, e, 1)

Ok(v) == [status |-> "ok", val |-> v]
Raise(e) == [status |-> e, val |-> NoResult]

\* n/d for |n|, |d| that may be past MaxExact
Ratio(n, d) ==
    IF Abs(n) > MaxExact \/ Abs(d) > MaxExact THEN Inexact ELSE Norm(n, d)

\* a ** b on floats: 0.0 to a negative power raises ZeroDivisionError
PyPow(a, b) ==
    IF a.den = 0 \/ b.den = 0 THEN Ok(Inexact)
    ELSE IF a.num = 0 /\ b.num < 0 THEN Raise("ZeroDivisionError")
    ELSE IF b.den # 1
         THEN IF a.num = 0 \/ (a.num = 1 /\ a.den = 1) THEN Ok(a)
              ELSE Ok(Inexact)
    ELSE IF b.num >= 0
         THEN Ok(Ratio(IntPow(a.num, b.num), IntPow(a.den, b.num)))
    ELSE Ok(Ratio(IntPow(a.den, -b.num), IntPow(a.num, -b.num)))

\* a * b on floats
PyMul(a, b) ==
    IF a.den = 0 \/ b.den = 0 THEN Ok(Inexact)
    ELSE Ok(Norm(a.num * b.num, a.den * b.den))

\* a / b on floats: a zero divisor raises ZeroDivisionError
PyDiv(a, b) ==
    IF b.den # 0 /\ b.num = 0 THEN Raise("ZeroDivisionError")
    ELSE IF a.den = 0 \/ b.den = 0 THEN Ok(Inexact)
    ELSE Ok(Norm(a.num * b.den, a.den * b.num))

\* a + b on floats
PyAdd(a, b) ==
    IF a.den = 0 \/ b.den = 0 THEN Ok(Inexact)
    ELSE Ok(Norm(a.num * b.den + b.num * a.den, a.den * b.den))

\* a - b on floats
PySub(a, b) ==
    IF a.den = 0 \/ b.den = 0 THEN Ok(Inexact)
    ELSE Ok(Norm(a.num * b.den - b.num * a.den, a.den * b.den))

(***************************************************************************)
(* Calc.                                                                   *)
(***************************************************************************)
\* a precedence list that leaves out the last operator kind
op_order_short == <<"^", "*", "/", "+", "+">>

\* a precedence list written lowest first
op_order_reversed == <<"-", "+", "/", "*", "^">>

\* Calc.op_order
op_order == <<"^", "*", "/", "+", "-">>

\* Calc.evaluate_expr: the window [a, op, b] reduced to one value
evaluate_expr(w) ==
    IF Len(w) < 3 THEN Raise("IndexError")
    ELSE IF ~(IsNumber(w[1]) /\ IsOperator(w[2]) /\ IsNumber(w[3]))
         THEN Raise("TypeError")
    ELSE IF w[2].op = "^" THEN PyPow(w[1], w[3])
    ELSE IF w[2].op = "*" THEN PyMul(w[1], w[3])
    ELSE IF w[2].op = "/" THEN PyDiv(w[1], w[3])
    ELSE IF w[2].op = "+" THEN PyAdd(w[1], w[3])
    ELSE IF w[2].op = "-" THEN PySub(w[1], w[3])
    ELSE Raise("TypeError")

\* the scan of a variant that keeps the last match instead of breaking
hitIndexLast(s, k) ==
    LET hits == {p \in 0..(Len(s) - 1) : s[p + 1].op = op_order[k + 1]}
    IN  IF hits = {} THEN 0
        ELSE CHOOSE p \in hits : \A q \in hits : q <= p

\* the for loop of Calc.evaluate: the 0-based index of the first element
\* equal to op_order[k], 0 when there is none
hitIndex(s, k) ==
    LET hits == {p \in 0..(Len(s) - 1) : s[p + 1].op = op_order[k + 1]}
    IN  IF hits = {} THEN 0
        ELSE CHOOSE p \in hits : \A q \in hits : p <= q

\* the slice s[i - 1:i + 2]
Window(s, i) ==
    LET hi == IF i + 2 > Len(s) THEN Len(s) ELSE i + 2
    IN  SubSeq(s, i, hi)

\* a slice assignment that replaces only s[i - 1:i + 1]
SliceAssignShort(s, i, v) ==
    SubSeq(s, 1, i - 1) \o <<v>> \o SubSeq(s, i + 2, Len(s))

\* the slice assignment s[i - 1:i + 2] = [v]
SliceAssign(s, i, v) ==
    SubSeq(s, 1, i - 1) \o <<v>> \o SubSeq(s, i + 3, Len(s))

\* one call of Calc.evaluate(stack, op_index)
evaluate ==
    /\ pc = "call"
    /\ IF Len(stack) = 1
       THEN /\ result' = stack[1]
            /\ pc' = "returned"
            /\ UNCHANGED <<stack, op_index, error, reductions>>
       ELSE IF op_index + 1 > Len(op_order)
       THEN /\ error' = "IndexError"
            /\ pc' = "raised"
            /\ UNCHANGED <<stack, op_index, result, reductions>>
       ELSE LET i == hitIndex(stack, op_index)
            IN  IF i = 0
                THEN /\ op_index' = op_index + 1
                     /\ UNCHANGED <<pc, stack, result, error, reductions>>
                ELSE LET r == evaluate_expr(Window(stack, i))
                     IN  IF r.status = "ok"
                         THEN /\ stack' = SliceAssign(stack, i, r.val)
                              /\ reductions' = reductions + 1
                              /\ UNCHANGED <<pc, op_index, result, error>>
                         ELSE /\ error' = r.status
                              /\ pc' = "raised"
                              /\ UNCHANGED <<stack, op_index, result,
                                             reductions>>
    /\ UNCHANGED <<mode, line, output, init_stack>>

(***************************************************************************)
(* calcLang(): the grammar, as pyparsing matches it.  A location is the    *)
(* number of characters already consumed, so s[loc + 1] is the next one.   *)
(***************************************************************************)
\* pyparsing.nums
nums == {"0", "1", "2", "3", "4", "5", "6", "7", "8", "9"}
\* pyparsing's default whitespace characters, skipped before every token
\* (parseString expands a tab to blanks first, which are skipped as well)
Whitespace == {" ", "\n", "\t", "\r"}

ParseOk(t, l) == [status |-> "ok", toks |-> t, loc |-> l]
ParseFail(e, l) == [status |-> e, toks |-> <<>>, loc |-> l]

\* the location after the whitespace that starts at loc
SkipWhitespace(s, loc) ==
    CHOOSE e \in loc..Len(s) :
        /\ \A p \in (loc + 1)..e : s[p] \in Whitespace
        /\ (e < Len(s) => s[e + 1] \notin Whitespace)

\* the location after the longest run of digits that starts at loc
DigitsEnd(s, loc) ==
    CHOOSE e \in loc..Len(s) :
        /\ \A p \in (loc + 1)..e : s[p] \in nums
        /\ (e < Len(s) => s[e + 1] \notin nums)

DigitValue(c) ==
    CHOOSE v \in 0..9 :
        c = <<"0", "1", "2", "3", "4", "5", "6", "7", "8", "9">>[v + 1]

RECURSIVE DigitsValue(_)
DigitsValue(ds) ==
    IF ds = <<>> THEN 0
    ELSE 10 * DigitsValue(SubSeq(ds, 1, Len(ds) - 1))
         + DigitValue(ds[Len(ds)])

\* float(text) for a text made of a sign or digit, digits, and an optional
\* point with digits: ValueError when the text holds no digit
PyFloat(text) ==
    LET signed == text[1] \in {"+", "-"}
        body == IF signed THEN SubSeq(text, 2, Len(text)) ELSE text
        dots == {p \in 1..Len(body) : body[p] = "."}
        dot == IF dots = {} THEN Len(body) + 1 ELSE CHOOSE p \in dots : TRUE
        whole == SubSeq(body, 1, dot - 1)
        frac == SubSeq(body, dot + 1, Len(body))
        scale == IntPow(10, Len(frac))
        mag == DigitsValue(SubSeq(body, 1, dot - 1) \o frac)
    IN  IF whole = <<>> /\ frac = <<>> THEN Raise("ValueError")
        ELSE Ok(Ratio(IF text[1] = "-" THEN -mag ELSE mag, scale))

\* the first characters of Word('+-' + nums, nums)
WordStart == {"+", "-"} \cup nums

\* number: Combine(Word('+-' + nums, nums) + Optional(point +
\* Optional(Word(nums)))) with its parse action float(n[0])
number(s, loc) ==
    LET start == SkipWhitespace(s, loc)
    IN  IF start >= Len(s) \/ s[start + 1] \notin WordStart
        THEN ParseFail("ParseException", start)
        ELSE LET word == DigitsEnd(s, start + 1)
                 stop == IF word < Len(s) /\ s[word + 1] = "."
                         THEN DigitsEnd(s, word + 1)
                         ELSE word
                 f == PyFloat(SubSeq(s, start + 1, stop))
             IN  IF f.status = "ok" THEN ParseOk(<<f.val>>, stop)
                 ELSE ParseFail(f.status, start)

\* operation: oneOf('+ - / * ^')
operation(s, loc) ==
    LET start == SkipWhitespace(s, loc)
    IN  IF start < Len(s) /\ s[start + 1] \in OpSymbols
        THEN ParseOk(<<Operator(s[start + 1])>>, start + 1)
        ELSE ParseFail("ParseException", start)

RECURSIVE expression(_, _), ZeroOrMore(_, _, _)
\* expression << number + ZeroOrMore(operation + expression)
expression(s, loc) ==
    LET n == number(s, loc)
    IN  IF n.status = "ok" THEN ZeroOrMore(s, n.loc, n.toks) ELSE n

\* ZeroOrMore(operation + expression) after the tokens acc: it stops, keeping
\* what it has, at the first repetition that raises ParseException
ZeroOrMore(s, loc, acc) ==
    LET o == operation(s, loc)
    IN  IF o.status # "ok" THEN ParseOk(acc, loc)
        ELSE LET e == expression(s, o.loc)
             IN  IF e.status = "ok"
                 THEN ZeroOrMore(s, e.loc, acc \o o.toks \o e.toks)
                 ELSE IF e.status = "ParseException" THEN ParseOk(acc, loc)
                 ELSE e

\* calcLang().parseString(s), which does not ask for the whole of s to match
parseString(s) == expression(s, 0)

(***************************************************************************)
(* Token sequences handed straight to Calc.evaluate.                       *)
(***************************************************************************)
Interleave(ns, os) ==
    [p \in 1..(2 * Len(os) + 1) |->
        IF p % 2 = 1 THEN Number(ns[(p + 1) \div 2], 1)
        ELSE Operator(os[p \div 2])]

EvaluateInit ==
    /\ mode = "eval"
    /\ line = <<>>
    /\ pc = "call"
    /\ \E k \in 0..MaxOps :
           \E ns \in [1..(k + 1) -> Literals], os \in [1..k -> OpSymbols] :
               stack = Interleave(ns, os)
    /\ init_stack = stack
    /\ op_index = 0
    /\ result = NoResult
    /\ error = ""
    /\ output = ""
    /\ reductions = 0

(***************************************************************************)
(* The driver: loop(marker) over the lines of the input, and the           *)
(* command-line path of the __main__ block.                                *)
(***************************************************************************)
RECURSIVE Strings(_)
Strings(n) ==
    IF n = 0 THEN {<<>>}
    ELSE Strings(n - 1) \cup
         {Append(s, c) : s \in {t \in Strings(n - 1) : Len(t) = n - 1},
                         c \in Alphabet}

Lines == Strings(MaxLineLen)

\* the string the driver parses: fileinput yields a line with its line end,
\* the command-line path joins the arguments with blanks
Text == IF mode = "loop" THEN Append(line, "\n") ELSE line

DriverInit ==
    /\ mode \in {"argv", "loop"}
    /\ line \in Lines
    /\ pc = "read"
    /\ stack = <<>>
    /\ init_stack = <<>>
    /\ op_index = 0
    /\ result = NoResult
    /\ error = ""
    /\ output = ""
    /\ reductions = 0

\* result = calcLang().parseString(line), then the call c.evaluate(result);
\* ParseException is caught and reported, any other exception is not caught
Parse ==
    /\ pc = "read"
    /\ LET r == parseString(Text)
       IN  IF r.status = "ok"
           THEN /\ stack' = r.toks
                /\ init_stack' = r.toks
                /\ pc' = "call"
                /\ UNCHANGED <<error, output>>
           ELSE IF r.status = "ParseException"
           THEN /\ error' = "ParseException"
                /\ output' = "Unable to parse input."
                /\ pc' = "reported"
                /\ UNCHANGED <<stack, init_stack>>
           ELSE /\ error' = r.status
                /\ pc' = "raised"
                /\ UNCHANGED <<stack, init_stack, output>>
    /\ UNCHANGED <<mode, line, op_index, result, reductions>>

\* the attributes a value of the given token type has: a float has no rstrip
HasRstrip(v) == v.type = "str"

\* print(c.evaluate(result).rstrip('0').rstrip('.')) once evaluate returned
PrintResult ==
    /\ mode \in {"argv", "loop"}
    /\ pc = "returned"
    /\ IF HasRstrip(result)
       THEN /\ pc' = "printed"
            /\ output' = "result"
            /\ UNCHANGED error
       ELSE /\ pc' = "raised"
            /\ error' = "AttributeError"
            /\ UNCHANGED output
    /\ UNCHANGED <<mode, line, stack, op_index, result, init_stack,
                   reductions>>

\* print(marker, end='', flush=True) at the end of one iteration of
\* for line in fileinput.input().  The next iteration, if the input has
\* another line, carries nothing over: it starts in a state of DriverInit.
Prompt ==
    /\ mode = "loop"
    /\ pc \in {"reported", "printed"}
    /\ pc' = "prompted"
    /\ UNCHANGED <<mode, line, stack, op_index, result, error, output,
                   init_stack, reductions>>

Init == EvaluateInit \/ DriverInit

Next == Parse \/ evaluate \/ PrintResult \/ Prompt

Spec == Init /\ [][Next]_vars

(***************************************************************************)
(* Notions the properties below are stated with.                           *)
(***************************************************************************)
\* the alternating-token invariant of a TokenSequence
Alternating(s) ==
    /\ Len(s) % 2 = 1
    /\ \A p \in 1..Len(s) :
           IF p % 2 = 1 THEN IsNumber(s[p])
           ELSE IsOperator(s[p]) /\ s[p].op \in OpSymbols

\* the three precedence tiers Pow > {Mul, Div} > {Add, Sub}
Tier(o) == IF o = "^" THEN 0 ELSE IF o \in {"*", "/"} THEN 1 ELSE 2

\* the reference reduction over tiers: the leftmost operator of the highest
\* tier still present is reduced first
RECURSIVE TierReduce(_, _)
TierReduce(s, t) ==
    IF Len(s) = 1 THEN Ok(s[1])
    ELSE LET hits == {p \in 1..Len(s) : IsOperator(s[p]) /\ Tier(s[p].op) = t}
         IN  IF hits = {} THEN TierReduce(s, t + 1)
             ELSE LET p == CHOOSE x \in hits : \A y \in hits : x <= y
                      r == evaluate_expr(SubSeq(s, p - 1, p + 1))
                  IN  IF r.status # "ok" THEN r
                      ELSE TierReduce(SubSeq(s, 1, p - 2) \o <<r.val>>
                                      \o SubSeq(s, p + 2, Len(s)), t)

\* ((n1 op n2) op n3) ... op nk
RECURSIVE LeftFold(_)
LeftFold(s) ==
    IF Len(s) = 1 THEN Ok(s[1])
    ELSE LET r == evaluate_expr(SubSeq(s, 1, 3))
         IN  IF r.status # "ok" THEN r
             ELSE LeftFold(<<r.val>> \o SubSeq(s, 4, Len(s)))

\* n1 op (n2 op (... op nk))
RECURSIVE RightFold(_)
RightFold(s) ==
    IF Len(s) = 1 THEN Ok(s[1])
    ELSE LET r == RightFold(SubSeq(s, 3, Len(s)))
         IN  IF r.status # "ok" THEN r
             ELSE evaluate_expr(<<s[1], s[2], r.val>>)

\* a sequence with at least one operator whose operators are all one symbol
SameOperator(s) ==
    /\ Len(s) >= 3
    /\ \A p \in 1..Len(s) : IsOperator(s[p]) => s[p].op = s[2].op

\* Calc.evaluate was called on a token sequence
Evaluating == init_stack # <<>>

\* the run is a run of the driver
Driven == mode \in {"argv", "loop"}

\* the window the current call of Calc.evaluate is about to reduce is a
\* division by zero
ZeroDivisionAhead ==
    /\ Evaluating
    /\ pc \in {"call", "raised"}
    /\ Len(stack) >= 3
    /\ op_index + 1 <= Len(op_order)
    /\ LET i == hitIndex(stack, op_index)
           w == Window(stack, i)
       IN  /\ i # 0
           /\ Len(w) = 3
           /\ w[2].op = "/"
           /\ w[3].den # 0
           /\ w[3].num = 0

\* the text has a prefix the grammar matches and unmatched text after it
UnmatchedTail(s) ==
    LET r == parseString(s)
    IN  r.status = "ok" /\ SkipWhitespace(s, r.loc) < Len(s)

\* the text starts with a sign that no digit follows immediately
LeadingBareSign(s) ==
    LET start == SkipWhitespace(s, 0)
    IN  /\ start < Len(s)
        /\ s[start + 1] \in {"+", "-"}
        /\ (start + 1 < Len(s) => s[start + 2] \notin nums)

(***************************************************************************)
(* The properties.                                                         *)
(***************************************************************************)
\* C1: whenever Calc.evaluate returns, the value is that of the reference
\* reduction with the three tiers Pow > {Mul, Div} > {Add, Sub}, the leftmost
\* operator of the highest tier present being reduced at each step.
C1_ThreeTierReference ==
    (Evaluating /\ pc = "returned") => Ok(result) = TierReduce(init_stack, 0)

\* C2: on a sequence whose operators are all the same symbol Calc.evaluate
\* ends as the left fold of that operator over the operands does: with the
\* same value when it returns, and raising when the left fold raises.
C2_LeftFold ==
    (Evaluating /\ SameOperator(init_stack)) =>
        /\ (pc = "returned" => Ok(result) = LeftFold(init_stack))
        /\ (pc = "raised" /\ error # "AttributeError"
               => LeftFold(init_stack).status = error)

\* a run on three operands joined by ^ has returned, and its value is not
\* the one right-to-left association gives
C2_Witness ==
    /\ pc = "returned"
    /\ SameOperator(init_stack)
    /\ Len(init_stack) >= 5
    /\ init_stack[2].op = "^"
    /\ Ok(result) # RightFold(init_stack)

\* C3: an input with a valid prefix followed by unmatched text is reported
\* as a ParseError by the driver's parse call, which does not go on with the
\* tokens of the prefix.
C3_UnmatchedTextIsParseError ==
    (Driven /\ pc # "read" /\ UnmatchedTail(Text)) => error = "ParseException"

\* C4: an input that starts with a sign which no digit follows ends parsing
\* in ParseError, and parsing never ends in the uncaught error of converting
\* the matched text to a float.
C4_BareSignIsParseError ==
    /\ (Driven /\ pc # "read" /\ LeadingBareSign(Text))
           => error = "ParseException"
    /\ error # "ValueError"

\* C5: a call of Calc.evaluate whose next window is a division by zero does
\* not end in a raised exception.
C5_DivisionByZeroIsNoError ==
    ZeroDivisionAhead => pc # "raised"

\* C6: Calc.evaluate shrinks the sequence by two elements per reduction and
\* ends only by returning the single remaining Number, after exactly k
\* reductions of a sequence with k operators.
C6_ReturnsAfterKReductions ==
    Evaluating =>
        /\ Len(stack) = Len(init_stack) - 2 * reductions
        /\ (pc = "raised" => error = "AttributeError")
        /\ (pc # "call" =>
               /\ Len(stack) = 1
               /\ result = stack[1]
               /\ reductions = (Len(init_stack) - 1) \div 2)

\* C7: once Calc.evaluate has returned its number to the driver, the driver
\* reaches the printed-result outcome and not an uncaught error.
C7_DriverPrintsResult ==
    (Driven /\ result # NoResult /\ pc # "returned") =>
        (pc \in {"printed", "prompted"} /\ error = "")

\* C8: the sequence a successful parse produced, and the sequence after
\* every reduction, is alternating; a reduction replaces exactly one window
\* [i-1, i, i+1] by one Number and leaves the elements outside it as they were.
C8_AlternatingKept ==
    /\ [](Evaluating => Alternating(stack))
    /\ [][reductions' # reductions =>
            \E i \in 1..(Len(stack) - 2) :
                /\ IsOperator(stack[i + 1])
                /\ Len(stack') = Len(stack) - 2
                /\ IsNumber(stack'[i])
                /\ \A p \in 1..(i - 1) : stack'[p] = stack[p]
                /\ \A p \in (i + 1)..Len(stack') : stack'[p] = stack[p + 2]]_vars

\* a reduction has happened and left a sequence that still has operators
C8_Witness ==
    /\ pc = "call"
    /\ reductions >= 1
    /\ Len(stack) >= 3

\* C9: the tier index never decreases; a reduction reduces the leftmost
\* operator of the current kind, while no operator of a strictly higher tier
\* is in the sequence, and leaves the tier index as it is.
C9_TiersHighestFirst ==
    [][/\ op_index' >= op_index
       /\ reductions' # reductions =>
            /\ op_index' = op_index
            /\ LET i == CHOOSE p \in 1..Len(stack) :
                            /\ stack[p].op = op_order[op_index + 1]
                            /\ \A q \in 1..(p - 1) :
                                   stack[q].op # op_order[op_index + 1]
               IN  /\ stack' = SubSeq(stack, 1, i - 2) \o <<stack'[i - 1]>>
                                \o SubSeq(stack, i + 2, Len(stack))
                   /\ \A p \in 1..Len(stack) :
                          IsOperator(stack[p]) =>
                              Tier(stack[p].op) >= Tier(stack[i].op)]_vars

\* a run has reduced operators of three kinds and reached the last kind
C9_Witness ==
    /\ pc = "returned"
    /\ reductions = 3
    /\ op_index = 4
    /\ {init_stack[2].op, init_stack[4].op, init_stack[6].op} = {"^", "/", "-"}

\* C10: at every call of Calc.evaluate on a sequence longer than one, the
\* index into op_order is within 0..4, the first element is not a match, and
\* so hitIndex is 0 exactly when there is no operator of the current kind.
C10_OpIndexInRange ==
    /\ error # "IndexError"
    /\ (pc = "call" /\ Len(stack) > 1) =>
           /\ op_index \in 0..4
           /\ stack[1].op # op_order[op_index + 1]
           /\ (hitIndex(stack, op_index) = 0 <=>
                   \A p \in 1..Len(stack) :
                       stack[p].op # op_order[op_index + 1])

\* the last operator kind is read and an operator of that kind is found
C10_Witness ==
    /\ pc = "call"
    /\ Len(stack) > 1
    /\ op_index = 4
    /\ hitIndex(stack, op_index) # 0

====
